---- MODULE Spec2Model ----
(***************************************************************************)
(* Burn-in counter: the batch scanner (main.py, BinarySearchFileCounter)   *)
(* and the approval surface (approval_interface.py) working on the two     *)
(* persisted documents state.json and pending_approvals.json.              *)
(*                                                                         *)
(* Instants are integers.  A file's st_mtime, datetime.now() and the       *)
(* isoformat()/fromisoformat()/timestamp() round trip of last_scan are all *)
(* kept at the clock's resolution: the round trip of a naive datetime is   *)
(* exact at microsecond resolution, so the cutoff read back from           *)
(* state.json is the instant that was written.                             *)
(***************************************************************************)
EXTENDS Integers, Sequences, FiniteSets, TLC

\* ------------------------------------------------------------------ bounds
MaxTime == 5          \* the clock stops here
MaxFiles == 3         \* files written, over all inboxes
MaxRequests == 3      \* approval ids that can be generated
Threshold24 == 2      \* tier_requirements["24h_to_12h"] of the configuration
ThresholdRest == 1    \* the other three tier_requirements
ProdStart == 1        \* production_start_date of the configuration
MaxKills == 1         \* process kills in a behaviour of SpecKill
MaxLen == 3           \* length of a list given to a function called on its own
MaxSize == 2          \* file sizes and min_file_size_bytes given to the file filter
MaxGain == 1          \* files an inbox gains between two enumerations (SpecProgress)
MaxRejects == 1       \* requests that may be answered with REJECT (SpecProgress)

\* ------------------------------------------------------- program constants
NoScan == -1          \* "last_scan": None
NoId == 0             \* no "pending_approval_id" key in the device record

Devices == {"d1", "d2"}
DeviceOrder == <<"d1", "d2">>     \* iteration order of config["devices"]
Approvers == {"alice"}
Decisions == {"APPROVE", "REJECT"}
FormDecisions == Decisions \cup {"OTHER"}
Ids == 1..MaxRequests
Instants == 0..MaxTime

Tiers == <<"24h", "12h", "6h", "3h", "2h">>

ConfiguredTier(d) == IF d = "d1" THEN "24h" ELSE "3h"

tier_requirements ==
  [k \in {"24h_to_12h", "12h_to_6h", "6h_to_3h", "3h_to_2h"} |->
     IF k = "24h_to_12h" THEN Threshold24 ELSE ThresholdRest]

VARIABLES
  now,             \* the wall clock
  inbox,           \* inbox[d]: the mtimes of the files in <scan_path>/d/BIU,
                   \* in the order the files were written (file i is inbox[d][i])
  config_json,     \* config.json
  state_json,      \* state.json
  approvals_json,  \* pending_approvals.json
  pc,              \* scanner process: position in __init__ / run_scan
  self_config,     \* scanner: self.config and self.bootstrap_mode
  self_state,      \* scanner: self.state
  self_pending,    \* scanner: self.pending_approvals
  start_time,      \* scanner: start_time of run_scan
  todo,            \* scanner: enabled devices still to scan
  device_results,  \* scanner: devices with an entry in device_results
  io_failed,       \* scanner: devices whose inbox was missing or unreadable
  scan_new,        \* scanner: files this scan classified new and added to count
  rpc,             \* approval surface: position in process_approval_decision
  r_req,           \* approval surface: the form (approval_id, decision, approver)
  r_state,         \* approval surface: counter.state
  r_pending,       \* approval surface: counter.pending_approvals
  r_result,        \* approval surface: outcome reported to the user
  rpc2,            \* approval surface, a second request thread: its position
  r_req2,          \* second thread: the form
  r_state2,        \* second thread: its own counter.state
  r_pending2,      \* second thread: its own counter.pending_approvals
  r_result2,       \* second thread: outcome reported to the user
  next_id,         \* the next fresh approval id (uuid4 never repeats)
  kills,           \* processes killed so far
  credited,        \* credited[d][i]: completed scans that added file i to count
  call,            \* a function called on its own: its name and arguments
  ret,             \* what that call returned
  outbox           \* the approval e-mails handed to SMTP, in order

vars == <<now, inbox, config_json, state_json, approvals_json,
          pc, self_config, self_state, self_pending, start_time, todo,
          device_results, io_failed, scan_new,
          rpc, r_req, r_state, r_pending, r_result,
          rpc2, r_req2, r_state2, r_pending2, r_result2,
          next_id, kills, credited, call, ret, outbox>>

envVars == <<now, inbox>>
diskVars == <<config_json, state_json, approvals_json>>
scanVars == <<pc, self_config, self_state, self_pending, start_time, todo,
              device_results, io_failed, scan_new>>
surfVars == <<rpc, r_req, r_state, r_pending, r_result>>
surf2Vars == <<rpc2, r_req2, r_state2, r_pending2, r_result2>>
ghostVars == <<next_id, kills, credited>>
unitVars == <<call, ret>>
mailVars == <<outbox>>

\* --------------------------------------------------------------- documents
create_initial_state ==
  [last_scan |-> NoScan, bootstrap_completed |-> FALSE,
   devices |-> [d \in {} |-> 0]]

EmptyApprovals == [pending |-> [i \in {} |-> 0], history |-> <<>>]

NoConfig == [enabled |-> {}, excluded_tiers |-> {}, bootstrap_mode |-> "absent",
             bootstrap_used_on_deployment |-> "absent", email_enabled |-> FALSE]
NoCall == [fn |-> "none"]
NoReq == [approval_id |-> NoId, decision |-> "", approver |-> ""]
NoNew == [d \in Devices |-> {}]

ZeroCounts == [total_files |-> 0, historical_files |-> 0, new_files |-> 0]

\* a function with one more (or one replaced) key
Put(f, k, v) == [x \in DOMAIN f \cup {k} |-> IF x = k THEN v ELSE f[x]]
\* a function without a key
Drop(f, k) == [x \in DOMAIN f \ {k} |-> f[x]]

\* the misspelt status constant: neither guard recognises a pending device
IsPending_Typo(device_state) == device_state.approval_status = "PENDING"

\* the comparison of both freeze guards (scan_device_optimized, update_device_state)
IsPending(device_state) == device_state.approval_status = "PENDING_APPROVAL"

\* ------------------------------------------------------ timestamp collector
RECURSIVE Insert(_, _)
\* x put behind the elements that are not greater (a stable insertion)
Insert(sorted, x) ==
  IF sorted = <<>> THEN <<x>>
  ELSE IF x < sorted[Len(sorted)]
       THEN Append(Insert(SubSeq(sorted, 1, Len(sorted) - 1), x), sorted[Len(sorted)])
       ELSE Append(sorted, x)

RECURSIVE Sort(_)
\* timestamps.sort(key=lambda x: x[0]): ascending by mtime, stable
Sort(timestamps) ==
  IF timestamps = <<>> THEN <<>>
  ELSE Insert(Sort(SubSeq(timestamps, 1, Len(timestamps) - 1)),
              timestamps[Len(timestamps)])

\* The files of the inbox are those that pass fast_file_filter; a missing or
\* unreadable directory gives the empty list.
bulk_collect_file_timestamps(exists, files) ==
  IF ~exists THEN <<>> ELSE Sort(files)

\* ----------------------------------------------------------- cutoff counter
RECURSIVE bisect_left_Right(_, _, _, _)
\* bisect.bisect_right: the insertion point behind the equal elements
bisect_left_Right(a, x, lo, hi) ==
  IF lo < hi
  THEN LET mid == (lo + hi) \div 2
       IN IF a[mid + 1] <= x THEN bisect_left_Right(a, x, mid + 1, hi)
                             ELSE bisect_left_Right(a, x, lo, mid)
  ELSE lo

RECURSIVE bisect_left(_, _, _, _)
\* bisect.bisect_left(a, x, lo, hi) with 0-based lo, hi over the 1-based a
bisect_left(a, x, lo, hi) ==
  IF lo < hi
  THEN LET mid == (lo + hi) \div 2
       IN IF a[mid + 1] < x THEN bisect_left(a, x, mid + 1, hi)
                            ELSE bisect_left(a, x, lo, mid)
  ELSE lo

\* a counter that reports the two parts the wrong way round
binary_search_file_count_Swapped(timestamps, cutoff_timestamp) ==
  IF timestamps = <<>> THEN ZeroCounts
  ELSE LET total_files == Len(timestamps)
           cutoff_index == bisect_left(timestamps, cutoff_timestamp, 0, total_files)
       IN [total_files |-> total_files,
           historical_files |-> total_files - cutoff_index,
           new_files |-> cutoff_index]

binary_search_file_count(timestamps, cutoff_timestamp) ==
  IF timestamps = <<>> THEN ZeroCounts
  ELSE LET total_files == Len(timestamps)
           cutoff_index == bisect_left(timestamps, cutoff_timestamp, 0, total_files)
       IN [total_files |-> total_files,
           historical_files |-> cutoff_index,
           new_files |-> total_files - cutoff_index]

AllHistorical(timestamps) ==
  [total_files |-> Len(timestamps), historical_files |-> Len(timestamps),
   new_files |-> 0]

\* get_device_production_start_date with a valid configured date
get_device_production_start_date(device_name) == ProdStart

\* a first run that does not look at bootstrap_mode
scan_device_optimized_NoBootstrap(cfg, st, device_name, exists, files) ==
  IF device_name \notin cfg.enabled THEN ZeroCounts
  ELSE IF ~exists THEN ZeroCounts
  ELSE LET timestamps == bulk_collect_file_timestamps(exists, files)
       IN IF timestamps = <<>> THEN ZeroCounts
          ELSE IF device_name \in DOMAIN st.devices
                  /\ IsPending(st.devices[device_name])
               THEN AllHistorical(timestamps)
          ELSE IF ~st.bootstrap_completed
               THEN binary_search_file_count(
                      timestamps, get_device_production_start_date(device_name))
          ELSE binary_search_file_count(timestamps, st.last_scan)

scan_device_optimized(cfg, st, device_name, exists, files) ==
  IF device_name \notin cfg.enabled THEN ZeroCounts
  ELSE IF ~exists THEN ZeroCounts
  ELSE LET timestamps == bulk_collect_file_timestamps(exists, files)
       IN IF timestamps = <<>> THEN ZeroCounts
          ELSE IF device_name \in DOMAIN st.devices
                  /\ IsPending(st.devices[device_name])
               THEN AllHistorical(timestamps)
          ELSE IF ~st.bootstrap_completed
               THEN IF cfg.bootstrap_mode = "true"
                    THEN AllHistorical(timestamps)
                    ELSE binary_search_file_count(
                           timestamps, get_device_production_start_date(device_name))
          ELSE binary_search_file_count(timestamps, st.last_scan)

\* The files behind file_counts["new_files"]: the tail of the sorted list.
\* Files are written with the clock's instant, so the inbox is in mtime order
\* and the stable sort leaves file i at position i.
NewFiles(file_counts) ==
  (file_counts.historical_files + 1)..file_counts.total_files

\* --------------------------------------------------------- device tier state
initialize_device_state(device_name) ==
  [current_tier |-> ConfiguredTier(device_name),
   count |-> 0,
   approval_status |-> "NONE",
   total_files |-> 0,
   historical_files |-> 0,
   pending_approval_id |-> NoId]

\* a tier table with a step out of the last tier
eligible_tier_Beyond(current_tier, current_count) ==
  IF current_tier = "24h" /\ current_count >= tier_requirements["24h_to_12h"] THEN "12h"
  ELSE IF current_tier = "12h" /\ current_count >= tier_requirements["12h_to_6h"] THEN "6h"
  ELSE IF current_tier = "6h" /\ current_count >= tier_requirements["6h_to_3h"] THEN "3h"
  ELSE IF current_tier = "3h" /\ current_count >= tier_requirements["3h_to_2h"] THEN "2h"
  ELSE IF current_tier = "2h" /\ current_count >= tier_requirements["3h_to_2h"] THEN "1h"
  ELSE "None"

\* a tier table that skips a tier
eligible_tier_Skip(current_tier, current_count) ==
  IF current_tier = "24h" /\ current_count >= tier_requirements["24h_to_12h"] THEN "6h"
  ELSE IF current_tier = "12h" /\ current_count >= tier_requirements["12h_to_6h"] THEN "6h"
  ELSE IF current_tier = "6h" /\ current_count >= tier_requirements["6h_to_3h"] THEN "3h"
  ELSE IF current_tier = "3h" /\ current_count >= tier_requirements["3h_to_2h"] THEN "2h"
  ELSE "None"

\* the if/elif chain of check_and_handle_tier_advancement
eligible_tier(current_tier, current_count) ==
  IF current_tier = "24h" /\ current_count >= tier_requirements["24h_to_12h"] THEN "12h"
  ELSE IF current_tier = "12h" /\ current_count >= tier_requirements["12h_to_6h"] THEN "6h"
  ELSE IF current_tier = "6h" /\ current_count >= tier_requirements["6h_to_3h"] THEN "3h"
  ELSE IF current_tier = "3h" /\ current_count >= tier_requirements["3h_to_2h"] THEN "2h"
  ELSE "None"

\* a request that records the two tiers the wrong way round
create_approval_request_Swapped(pa, approval_id, device_name, current_tier, new_tier, count) ==
  [pa EXCEPT !.pending =
     Put(@, approval_id,
         [approval_id |-> approval_id,
          device_name |-> device_name,
          current_tier |-> new_tier,
          proposed_tier |-> current_tier,
          unit_count |-> count,
          status |-> "PENDING",
          approver |-> "",
          decision_date |-> NoScan])]

\* the request is added to the in-memory pending set; the action that uses
\* this also performs save_pending_approvals()
create_approval_request(pa, approval_id, device_name, current_tier, new_tier, count) ==
  [pa EXCEPT !.pending =
     Put(@, approval_id,
         [approval_id |-> approval_id,
          device_name |-> device_name,
          current_tier |-> current_tier,
          proposed_tier |-> new_tier,
          unit_count |-> count,
          status |-> "PENDING",
          approver |-> "",
          decision_date |-> NoScan])]

\* an engine that moves the device to the eligible tier itself
check_and_handle_tier_advancement_AutoAdvance(cfg, pa, approval_id, device_name, device_state) ==
  LET current_tier == device_state.current_tier
      current_count == device_state.count
      elig == eligible_tier(current_tier, current_count)
  IN IF current_tier \in cfg.excluded_tiers \/ elig = "None" \/ elig = current_tier
     THEN [device_state |-> device_state, pending_approvals |-> pa, created |-> FALSE]
     ELSE [device_state |->
             [device_state EXCEPT !.current_tier = elig,
                                  !.approval_status = "PENDING_APPROVAL",
                                  !.pending_approval_id = approval_id],
           pending_approvals |->
             create_approval_request(pa, approval_id, device_name, current_tier,
                                     elig, current_count),
           created |-> TRUE]

\* an engine that does not look at excluded_tiers
check_and_handle_tier_advancement_IgnoreExcluded(cfg, pa, approval_id, device_name, device_state) ==
  LET current_tier == device_state.current_tier
      current_count == device_state.count
      elig == eligible_tier(current_tier, current_count)
  IN IF elig = "None" \/ elig = current_tier
     THEN [device_state |-> device_state, pending_approvals |-> pa, created |-> FALSE]
     ELSE [device_state |->
             [device_state EXCEPT !.approval_status = "PENDING_APPROVAL",
                                  !.pending_approval_id = approval_id],
           pending_approvals |->
             create_approval_request(pa, approval_id, device_name, current_tier,
                                     elig, current_count),
           created |-> TRUE]

check_and_handle_tier_advancement(cfg, pa, approval_id, device_name, device_state) ==
  LET current_tier == device_state.current_tier
      current_count == device_state.count
      elig == eligible_tier(current_tier, current_count)
  IN IF current_tier \in cfg.excluded_tiers \/ elig = "None" \/ elig = current_tier
     THEN [device_state |-> device_state, pending_approvals |-> pa, created |-> FALSE]
     ELSE [device_state |->
             [device_state EXCEPT !.approval_status = "PENDING_APPROVAL",
                                  !.pending_approval_id = approval_id],
           pending_approvals |->
             create_approval_request(pa, approval_id, device_name, current_tier,
                                     elig, current_count),
           created |-> TRUE]

\* update_device_state without its "Don't update count if pending approval" return
update_device_state_NoGuard(cfg, st, pa, approval_id, device_name, file_counts) ==
  LET devices0 == IF device_name \in DOMAIN st.devices THEN st.devices
                  ELSE Put(st.devices, device_name, initialize_device_state(device_name))
      ds1 == [devices0[device_name] EXCEPT
                !.total_files = file_counts.total_files,
                !.historical_files = file_counts.historical_files]
      ds2 == [ds1 EXCEPT !.count = @ + file_counts.new_files]
      adv == check_and_handle_tier_advancement(cfg, pa, approval_id, device_name, ds2)
  IN [state |-> [st EXCEPT !.devices = Put(devices0, device_name, adv.device_state)],
      pending_approvals |-> adv.pending_approvals,
      created |-> adv.created]

\* an update that takes a zero-file result for an emptied inbox and restarts
\* the count
update_device_state_ZeroResets(cfg, st, pa, approval_id, device_name, file_counts) ==
  LET devices0 == IF device_name \in DOMAIN st.devices THEN st.devices
                  ELSE Put(st.devices, device_name, initialize_device_state(device_name))
      ds1 == [devices0[device_name] EXCEPT
                !.total_files = file_counts.total_files,
                !.historical_files = file_counts.historical_files]
      ds2 == [ds1 EXCEPT !.count = IF file_counts.total_files = 0 THEN 0
                                   ELSE @ + file_counts.new_files]
      adv == check_and_handle_tier_advancement(cfg, pa, approval_id, device_name, ds2)
  IN IF IsPending(ds1)
     THEN [state |-> [st EXCEPT !.devices = Put(devices0, device_name, ds1)],
           pending_approvals |-> pa,
           created |-> FALSE]
     ELSE [state |-> [st EXCEPT !.devices = Put(devices0, device_name, adv.device_state)],
           pending_approvals |-> adv.pending_approvals,
           created |-> adv.created]

update_device_state(cfg, st, pa, approval_id, device_name, file_counts) ==
  LET devices0 == IF device_name \in DOMAIN st.devices THEN st.devices
                  ELSE Put(st.devices, device_name, initialize_device_state(device_name))
      ds1 == [devices0[device_name] EXCEPT
                !.total_files = file_counts.total_files,
                !.historical_files = file_counts.historical_files]
      ds2 == [ds1 EXCEPT !.count = @ + file_counts.new_files]
      adv == check_and_handle_tier_advancement(cfg, pa, approval_id, device_name, ds2)
  IN IF IsPending(ds1)
     THEN [state |-> [st EXCEPT !.devices = Put(devices0, device_name, ds1)],
           pending_approvals |-> pa,
           created |-> FALSE]
     ELSE [state |-> [st EXCEPT !.devices = Put(devices0, device_name, adv.device_state)],
           pending_approvals |-> adv.pending_approvals,
           created |-> adv.created]

\* --------------------------------------------------------- approval workflow
\* a history entry without the approver
Resolved_NoApprover(approval_request, decision, approver, t) ==
  [approval_request EXCEPT !.status = decision, !.decision_date = t]

\* the request as it is appended to the history log
Resolved(approval_request, decision, approver, t) ==
  [approval_request EXCEPT !.status = decision,
                           !.decision_date = t,
                           !.approver = approver]

\* a decision that also resets the observational counter total_files
Decided_ResetTotals(device_state, approval_request, decision) ==
  [device_state EXCEPT
     !.current_tier = IF decision = "APPROVE" THEN approval_request.proposed_tier ELSE @,
     !.count = 0,
     !.total_files = 0,
     !.approval_status = IF decision = "APPROVE" THEN "APPROVED" ELSE "REJECTED",
     !.pending_approval_id = NoId]

\* the device record after the decision branches and the del of pending_approval_id
Decided(device_state, approval_request, decision) ==
  LET ds1 == IF decision = "APPROVE"
             THEN [device_state EXCEPT
                     !.current_tier = approval_request.proposed_tier,
                     !.count = 0,
                     !.approval_status = "APPROVED"]
             ELSE IF decision = "REJECT"
             THEN [device_state EXCEPT !.count = 0, !.approval_status = "REJECTED"]
             ELSE device_state
  IN [ds1 EXCEPT !.pending_approval_id = NoId]

\* a REJECT that keeps the accrued count
process_approval_decision_KeepCount(st, pa, approval_id, decision, approver, t) ==
  IF approval_id \notin DOMAIN pa.pending
  THEN [outcome |-> "not_found", state |-> st, pending_approvals |-> pa]
  ELSE LET approval_request == pa.pending[approval_id]
           device_name == approval_request.device_name
       IN IF device_name \notin DOMAIN st.devices
          THEN [outcome |-> "key_error", state |-> st, pending_approvals |-> pa]
          ELSE LET ds == st.devices[device_name]
                   ds1 == IF decision = "REJECT"
                          THEN [ds EXCEPT !.approval_status = "REJECTED",
                                          !.pending_approval_id = NoId]
                          ELSE Decided(ds, approval_request, decision)
               IN [outcome |-> "ok",
                   state |-> [st EXCEPT !.devices = Put(@, device_name, ds1)],
                   pending_approvals |->
                     [pending |-> Drop(pa.pending, approval_id),
                      history |-> Append(pa.history,
                                    Resolved(approval_request, decision, approver, t))]]

\* a retry that re-applies a decision already in the history log
process_approval_decision_Replay(st, pa, approval_id, decision, approver, t) ==
  LET old == {i \in DOMAIN pa.history : pa.history[i].approval_id = approval_id}
  IN IF approval_id \notin DOMAIN pa.pending /\ old = {}
     THEN [outcome |-> "not_found", state |-> st, pending_approvals |-> pa]
     ELSE LET approval_request == IF approval_id \in DOMAIN pa.pending
                                  THEN pa.pending[approval_id]
                                  ELSE pa.history[CHOOSE i \in old : TRUE]
              device_name == approval_request.device_name
          IN IF device_name \notin DOMAIN st.devices
             THEN [outcome |-> "key_error", state |-> st, pending_approvals |-> pa]
             ELSE [outcome |-> "ok",
                   state |-> [st EXCEPT !.devices =
                                Put(@, device_name,
                                    Decided(st.devices[device_name],
                                            approval_request, decision))],
                   pending_approvals |->
                     [pending |-> Drop(pa.pending, approval_id),
                      history |-> Append(pa.history,
                                    Resolved(approval_request, decision, approver, t))]]

\* process_approval_decision up to its two saves: "not_found" is the return
\* False, "key_error" the KeyError of self.state["devices"][device_name]
process_approval_decision(st, pa, approval_id, decision, approver, t) ==
  IF approval_id \notin DOMAIN pa.pending
  THEN [outcome |-> "not_found", state |-> st, pending_approvals |-> pa]
  ELSE LET approval_request == pa.pending[approval_id]
           device_name == approval_request.device_name
       IN IF device_name \notin DOMAIN st.devices
          THEN [outcome |-> "key_error", state |-> st, pending_approvals |-> pa]
          ELSE [outcome |-> "ok",
                state |-> [st EXCEPT !.devices =
                             Put(@, device_name,
                                 Decided(st.devices[device_name],
                                         approval_request, decision))],
                pending_approvals |->
                  [pending |-> Drop(pa.pending, approval_id),
                   history |-> Append(pa.history,
                                 Resolved(approval_request, decision, approver, t))]]

\* a notifier that lets the exception of the SMTP session out
send_approval_request_email_Raise(sent, approval_request, smtp_ok) ==
  [outbox |-> Append(sent, [approval_id |-> approval_request.approval_id,
                            device_name |-> approval_request.device_name,
                            delivered |-> smtp_ok]),
   raised |-> ~smtp_ok]

\* send_approval_request_email: the message is handed to SMTP; an exception
\* of the SMTP session is caught and logged (raised = FALSE in either case)
send_approval_request_email(sent, approval_request, smtp_ok) ==
  [outbox |-> Append(sent, [approval_id |-> approval_request.approval_id,
                            device_name |-> approval_request.device_name,
                            delivered |-> smtp_ok]),
   raised |-> FALSE]

\* a handler that hands any decision value to the counter
process_approval_NoCheck(st, pa, approval_id, decision, approver, t) ==
  IF approval_id = NoId \/ decision = "" \/ approver = ""
  THEN [flash |-> "missing", state |-> st, pending_approvals |-> pa]
  ELSE LET res == process_approval_decision(st, pa, approval_id, decision, approver, t)
       IN IF res.outcome = "ok"
          THEN [flash |-> "success", state |-> res.state,
                pending_approvals |-> res.pending_approvals]
          ELSE [flash |-> "error", state |-> st, pending_approvals |-> pa]

\* process_approval: the form checks, one counter, one decision, the feedback
\* category ("failed" is the False return, "error" an exception caught by the
\* handler); state and pending_approvals are the two documents as it leaves
\* them.  The approver is recorded with the session's user appended.
process_approval(st, pa, approval_id, decision, approver, t) ==
  IF approval_id = NoId \/ decision = "" \/ approver = ""
  THEN [flash |-> "missing", state |-> st, pending_approvals |-> pa]
  ELSE IF decision \notin Decisions
  THEN [flash |-> "invalid", state |-> st, pending_approvals |-> pa]
  ELSE LET res == process_approval_decision(st, pa, approval_id, decision, approver, t)
       IN IF res.outcome = "ok"
          THEN [flash |-> "success", state |-> res.state,
                pending_approvals |-> res.pending_approvals]
          ELSE IF res.outcome = "not_found"
          THEN [flash |-> "failed", state |-> st, pending_approvals |-> pa]
          ELSE [flash |-> "error", state |-> st, pending_approvals |-> pa]

\* the loop of bulk_process_approval over one counter: every id is tried, a
\* KeyError is caught and logged, a True return is counted
RECURSIVE bulk_loop(_, _, _, _, _, _)
bulk_loop(st, pa, approval_ids, decision, approver, t) ==
  IF approval_ids = <<>>
  THEN [state |-> st, pending_approvals |-> pa, success_count |-> 0]
  ELSE LET res == process_approval_decision(st, pa, Head(approval_ids),
                                            decision, approver, t)
           rest == bulk_loop(res.state, res.pending_approvals, Tail(approval_ids),
                             decision, approver, t)
       IN [rest EXCEPT !.success_count = @ + IF res.outcome = "ok" THEN 1 ELSE 0]

\* bulk_process_approval: the form checks, the loop, the feedback category;
\* state and pending_approvals are the two documents as the handler leaves them
bulk_process_approval(st, pa, approval_ids, decision, approver, t) ==
  IF approval_ids = <<>> \/ decision = "" \/ approver = ""
  THEN [flash |-> "missing", state |-> st, pending_approvals |-> pa,
        success_count |-> 0, total_count |-> 0]
  ELSE IF decision \notin Decisions
  THEN [flash |-> "invalid", state |-> st, pending_approvals |-> pa,
        success_count |-> 0, total_count |-> 0]
  ELSE LET r == bulk_loop(st, pa, approval_ids, decision, approver, t)
           total_count == Len(approval_ids)
       IN [flash |-> IF r.success_count = total_count THEN "success"
                     ELSE IF r.success_count > 0 THEN "warning"
                     ELSE "error",
           state |-> r.state,
           pending_approvals |-> r.pending_approvals,
           success_count |-> r.success_count,
           total_count |-> total_count]

\* -------------------------------------------------------------------- Init
\* the deployment before the first scan: no state.json, no pending_approvals.json
Installed ==
  /\ now = 0
  /\ inbox = [d \in Devices |-> <<>>]
  /\ \E bm \in {"true", "false"}, email \in BOOLEAN :
       config_json = [enabled |-> Devices, excluded_tiers |-> {}, bootstrap_mode |-> bm,
                      bootstrap_used_on_deployment |-> "absent",
                      email_enabled |-> email]
  /\ state_json = create_initial_state
  /\ approvals_json = EmptyApprovals
  /\ pc = "idle"
  /\ self_config = NoConfig
  /\ self_state = create_initial_state
  /\ self_pending = EmptyApprovals
  /\ start_time = NoScan
  /\ todo = <<>>
  /\ device_results = {}
  /\ io_failed = {}
  /\ scan_new = NoNew
  /\ rpc = "idle"
  /\ r_req = NoReq
  /\ r_state = create_initial_state
  /\ r_pending = EmptyApprovals
  /\ r_result = "none"
  /\ rpc2 = "idle"
  /\ r_req2 = NoReq
  /\ r_state2 = create_initial_state
  /\ r_pending2 = EmptyApprovals
  /\ r_result2 = "none"
  /\ next_id = 1
  /\ kills = 0
  /\ credited = [d \in Devices |-> <<>>]
  /\ outbox = <<>>

\* a deployment with e-mail notification off, as the configuration wizard
\* proposes it
Init ==
  /\ Installed
  /\ ~config_json.email_enabled
  /\ call = NoCall
  /\ ret = NoCall

\* a deployment with e-mail notification on
InitNotify ==
  /\ Installed
  /\ config_json.email_enabled
  /\ call = NoCall
  /\ ret = NoCall

\* ------------------------------------------------------------- environment
\* The clock moves on its own only up to the instant after the production
\* start; later instants are told apart by the scans that start between them.
Tick ==
  /\ now < MaxTime
  /\ now <= ProdStart
  /\ now' = now + 1
  /\ UNCHANGED inbox
  /\ UNCHANGED <<diskVars, scanVars, surfVars, ghostVars>>
  /\ UNCHANGED <<unitVars, mailVars, surf2Vars>>

RECURSIVE SumLen(_, _)
SumLen(f, S) ==
  IF S = {} THEN 0
  ELSE LET d == CHOOSE x \in S : TRUE IN Len(f[d]) + SumLen(f, S \ {d})

FilesWritten == SumLen(inbox, Devices)

\* a unit of work is written into the device's inbox
AddFile(d) ==
  /\ FilesWritten < MaxFiles
  /\ inbox' = [inbox EXCEPT ![d] = Append(@, now)]
  /\ credited' = [credited EXCEPT ![d] = Append(@, 0)]
  /\ UNCHANGED <<now, next_id, kills>>
  /\ UNCHANGED <<diskVars, scanVars, surfVars>>
  /\ UNCHANGED <<unitVars, mailVars, surf2Vars>>

\* the operator edits config.json between two scans: a device is disabled or
\* enabled again
Reconfigure(d) ==
  /\ pc = "idle"
  /\ rpc = "idle"
  /\ config_json' = [config_json EXCEPT
                       !.enabled = IF d \in @ THEN @ \ {d} ELSE @ \cup {d}]
  /\ UNCHANGED <<state_json, approvals_json>>
  /\ UNCHANGED <<envVars, scanVars, surfVars, ghostVars>>
  /\ UNCHANGED <<unitVars, mailVars, surf2Vars>>

\* ----------------------------------------------------------------- scanner
\* a loop over every configured device, enabled or not
EnabledDevices_All(cfg) == DeviceOrder

\* the enabled devices in the order of config["devices"]
EnabledDevices(cfg) == SelectSeq(DeviceOrder, LAMBDA d : d \in cfg.enabled)

\* __init__: load_config() and load_state()
Construct ==
  /\ pc = "idle"
  /\ self_config' = config_json
  /\ self_state' = state_json
  /\ pc' = "load_pending"
  /\ UNCHANGED <<self_pending, start_time, todo, device_results, io_failed, scan_new>>
  /\ UNCHANGED <<envVars, diskVars, surfVars, ghostVars>>
  /\ UNCHANGED <<unitVars, mailVars, surf2Vars>>

\* __init__: load_pending_approvals()
LoadPending ==
  /\ pc = "load_pending"
  /\ self_pending' = approvals_json
  /\ pc' = "start"
  /\ UNCHANGED <<self_config, self_state, start_time, todo, device_results,
                 io_failed, scan_new>>
  /\ UNCHANGED <<envVars, diskVars, surfVars, ghostVars>>
  /\ UNCHANGED <<unitVars, mailVars, surf2Vars>>

\* run_scan: start_time = datetime.now(); scan_all_devices lists the enabled
\* devices.  The start instant is one no file carries: files written before it
\* are older, files written after it are newer.
StartScan ==
  /\ pc = "start"
  /\ now + 2 <= MaxTime
  /\ start_time' = now + 1
  /\ now' = now + 2
  /\ todo' = EnabledDevices(self_config)
  /\ device_results' = {}
  /\ io_failed' = {}
  /\ scan_new' = NoNew
  /\ pc' = IF EnabledDevices(self_config) = <<>> THEN "done" ELSE "scan"
  /\ UNCHANGED <<self_config, self_state, self_pending>>
  /\ UNCHANGED <<inbox, diskVars, surfVars, ghostVars>>
  /\ UNCHANGED <<unitVars, mailVars, surf2Vars>>

\* One iteration of the loop of scan_all_devices: the directory enumeration,
\* scan_device_optimized, update_device_state and, when the device becomes
\* eligible, create_approval_request with its save_pending_approvals() and,
\* if e-mail is enabled, send_approval_request_email.
\* exists = FALSE is the enumeration that finds the BIU folder missing or
\* unreadable; smtp_ok = FALSE is an SMTP session that raises.
ScanDeviceWith(exists, smtp_ok) ==
  /\ pc = "scan"
  /\ LET d == Head(todo)
         file_counts == scan_device_optimized(self_config, self_state, d,
                                              exists, inbox[d])
         upd == update_device_state(self_config, self_state, self_pending,
                                    next_id, d, file_counts)
         mail == IF upd.created /\ self_config.email_enabled
                 THEN send_approval_request_email(
                        outbox, upd.pending_approvals.pending[next_id], smtp_ok)
                 ELSE [outbox |-> outbox, raised |-> FALSE]
     IN /\ upd.created => next_id <= MaxRequests
        /\ self_state' = upd.state
        /\ self_pending' = upd.pending_approvals
        /\ approvals_json' = IF upd.created THEN upd.pending_approvals
                                             ELSE approvals_json
        /\ next_id' = IF upd.created THEN next_id + 1 ELSE next_id
        /\ outbox' = mail.outbox
        /\ scan_new' = [scan_new EXCEPT ![d] =
                          IF upd.state.devices[d].count
                               # (IF d \in DOMAIN self_state.devices
                                  THEN self_state.devices[d].count ELSE 0)
                          THEN NewFiles(file_counts)
                          ELSE {}]
        /\ device_results' = device_results \cup {d}
        /\ io_failed' = IF exists THEN io_failed ELSE io_failed \cup {d}
        /\ todo' = Tail(todo)
        /\ pc' = IF mail.raised THEN "done"      \* run_scan is left by the exception
                 ELSE IF Tail(todo) # <<>> THEN "scan"
                 ELSE IF ~self_state.bootstrap_completed THEN "bootstrap"
                 ELSE "save"
  /\ UNCHANGED <<self_config, start_time>>
  /\ UNCHANGED <<envVars, config_json, state_json, surfVars, kills, credited>>
  /\ UNCHANGED <<unitVars, surf2Vars>>

ScanDevice == \E exists \in BOOLEAN, smtp_ok \in BOOLEAN : ScanDeviceWith(exists, smtp_ok)

\* del config["production_settings"]["bootstrap_mode"], kept as
\* bootstrap_used_on_deployment
ClearBootstrap(cfg) ==
  IF cfg.bootstrap_mode = "absent" THEN cfg
  ELSE [cfg EXCEPT !.bootstrap_mode = "absent",
                   !.bootstrap_used_on_deployment = cfg.bootstrap_mode]

\* run_scan: bootstrap_completed = True; bootstrap_mode is deleted from the
\* configuration and config.json rewritten (a failed write is only logged)
CompleteBootstrap ==
  /\ pc = "bootstrap"
  /\ self_state' = [self_state EXCEPT !.bootstrap_completed = TRUE]
  /\ self_config' = ClearBootstrap(self_config)
  /\ \E written \in BOOLEAN :
       config_json' = IF written /\ self_config.bootstrap_mode # "absent"
                      THEN ClearBootstrap(self_config)
                      ELSE config_json
  /\ pc' = "save"
  /\ UNCHANGED <<self_pending, start_time, todo, device_results, io_failed, scan_new>>
  /\ UNCHANGED <<envVars, state_json, approvals_json, surfVars, ghostVars>>
  /\ UNCHANGED <<unitVars, mailVars, surf2Vars>>

\* run_scan: last_scan = start_time; save_state()
SaveState ==
  /\ pc = "save"
  /\ self_state' = [self_state EXCEPT !.last_scan = start_time]
  /\ state_json' = [self_state EXCEPT !.last_scan = start_time]
  /\ credited' = [d \in Devices |->
                    [i \in DOMAIN credited[d] |->
                       IF i \in scan_new[d] THEN credited[d][i] + 1
                                            ELSE credited[d][i]]]
  /\ pc' = "done"
  /\ UNCHANGED <<self_config, self_pending, start_time, todo, device_results,
                 io_failed, scan_new>>
  /\ UNCHANGED <<envVars, config_json, approvals_json, surfVars, next_id, kills>>
  /\ UNCHANGED <<unitVars, mailVars, surf2Vars>>

\* the process exits
ScanExit ==
  /\ pc = "done"
  /\ pc' = "idle"
  /\ self_config' = NoConfig
  /\ self_state' = create_initial_state
  /\ self_pending' = EmptyApprovals
  /\ start_time' = NoScan
  /\ todo' = <<>>
  /\ device_results' = {}
  /\ io_failed' = {}
  /\ scan_new' = NoNew
  /\ UNCHANGED <<envVars, diskVars, surfVars, ghostVars>>
  /\ UNCHANGED <<unitVars, mailVars, surf2Vars>>

\* -------------------------------------------------------- approval surface
\* process_approval: the form is refused before any counter is created
SubmitInvalid(decision) ==
  /\ rpc = "idle"
  /\ decision \notin Decisions
  /\ r_req' = [NoReq EXCEPT !.decision = decision]
  /\ r_result' = "invalid"
  /\ rpc' = "done"
  /\ UNCHANGED <<r_state, r_pending>>
  /\ UNCHANGED <<envVars, diskVars, scanVars, ghostVars>>
  /\ UNCHANGED <<unitVars, mailVars, surf2Vars>>

\* process_approval with a valid form: create_bi_counter() loads state.json
\* and pending_approvals.json, then process_approval_decision runs up to and
\* including save_state()
Resolve(approval_id, decision, approver) ==
  /\ rpc = "idle"
  /\ decision \in Decisions
  /\ r_req' = [approval_id |-> approval_id, decision |-> decision, approver |-> approver]
  /\ LET res == process_approval_decision(state_json, approvals_json, approval_id,
                                          decision, approver, now)
     IN /\ r_state' = res.state
        /\ r_pending' = res.pending_approvals
        /\ state_json' = IF res.outcome = "ok" THEN res.state ELSE state_json
        /\ rpc' = IF res.outcome = "ok" THEN "save_pending" ELSE "done"
        /\ r_result' = IF res.outcome = "ok" THEN r_result
                       ELSE IF res.outcome = "not_found" THEN "failed"
                       ELSE "error"
  /\ UNCHANGED <<envVars, config_json, approvals_json, scanVars, ghostVars>>
  /\ UNCHANGED <<unitVars, mailVars, surf2Vars>>

\* process_approval with a valid form, first half: create_bi_counter() has
\* loaded state.json and pending_approvals.json into a fresh counter
SurfaceLoad(approval_id, decision, approver) ==
  /\ rpc = "idle"
  /\ decision \in Decisions
  /\ r_req' = [approval_id |-> approval_id, decision |-> decision, approver |-> approver]
  /\ r_state' = state_json
  /\ r_pending' = approvals_json
  /\ rpc' = "loaded"
  /\ UNCHANGED r_result
  /\ UNCHANGED <<envVars, diskVars, scanVars, ghostVars>>
  /\ UNCHANGED <<unitVars, mailVars, surf2Vars>>

\* second half: process_approval_decision on the counter's copies, up to and
\* including save_state()
SurfaceDecide ==
  /\ rpc = "loaded"
  /\ LET res == process_approval_decision(r_state, r_pending, r_req.approval_id,
                                          r_req.decision, r_req.approver, now)
     IN /\ r_state' = res.state
        /\ r_pending' = res.pending_approvals
        /\ state_json' = IF res.outcome = "ok" THEN res.state ELSE state_json
        /\ rpc' = IF res.outcome = "ok" THEN "save_pending" ELSE "done"
        /\ r_result' = IF res.outcome = "ok" THEN r_result
                       ELSE IF res.outcome = "not_found" THEN "failed"
                       ELSE "error"
  /\ UNCHANGED r_req
  /\ UNCHANGED <<envVars, config_json, approvals_json, scanVars, ghostVars>>
  /\ UNCHANGED <<unitVars, mailVars, surf2Vars>>

\* process_approval_decision: save_pending_approvals(); return True
SurfaceSavePending ==
  /\ rpc = "save_pending"
  /\ approvals_json' = r_pending
  /\ r_result' = "success"
  /\ rpc' = "done"
  /\ UNCHANGED <<r_req, r_state, r_pending>>
  /\ UNCHANGED <<envVars, config_json, state_json, scanVars, ghostVars>>
  /\ UNCHANGED <<unitVars, mailVars, surf2Vars>>

\* the response is sent; the counter is dropped
SurfaceReturn ==
  /\ rpc = "done"
  /\ rpc' = "idle"
  /\ r_req' = NoReq
  /\ r_state' = create_initial_state
  /\ r_pending' = EmptyApprovals
  /\ r_result' = "none"
  /\ UNCHANGED <<envVars, diskVars, scanVars, ghostVars>>
  /\ UNCHANGED <<unitVars, mailVars, surf2Vars>>

\* ------------------------------------------- a second request thread
\* app.run(threaded=True): every request runs in a thread of its own, and
\* create_bi_counter() gives each its own counter. The second thread runs the
\* same handler as the first, on its own copies.
OtherApprovers == {"bob"}

Surface2Load(approval_id, decision, approver) ==
  /\ rpc2 = "idle"
  /\ decision \in Decisions
  /\ r_req2' = [approval_id |-> approval_id, decision |-> decision, approver |-> approver]
  /\ r_state2' = state_json
  /\ r_pending2' = approvals_json
  /\ rpc2' = "loaded"
  /\ UNCHANGED r_result2
  /\ UNCHANGED <<envVars, diskVars, scanVars, surfVars, ghostVars>>
  /\ UNCHANGED <<unitVars, mailVars>>

Surface2Decide ==
  /\ rpc2 = "loaded"
  /\ LET res == process_approval_decision(r_state2, r_pending2, r_req2.approval_id,
                                          r_req2.decision, r_req2.approver, now)
     IN /\ r_state2' = res.state
        /\ r_pending2' = res.pending_approvals
        /\ state_json' = IF res.outcome = "ok" THEN res.state ELSE state_json
        /\ rpc2' = IF res.outcome = "ok" THEN "save_pending" ELSE "done"
        /\ r_result2' = IF res.outcome = "ok" THEN r_result2
                        ELSE IF res.outcome = "not_found" THEN "failed"
                        ELSE "error"
  /\ UNCHANGED r_req2
  /\ UNCHANGED <<envVars, config_json, approvals_json, scanVars, surfVars, ghostVars>>
  /\ UNCHANGED <<unitVars, mailVars>>

Surface2SavePending ==
  /\ rpc2 = "save_pending"
  /\ approvals_json' = r_pending2
  /\ r_result2' = "success"
  /\ rpc2' = "done"
  /\ UNCHANGED <<r_req2, r_state2, r_pending2>>
  /\ UNCHANGED <<envVars, config_json, state_json, scanVars, surfVars, ghostVars>>
  /\ UNCHANGED <<unitVars, mailVars>>

\* ------------------------------------------------------------ process kill
\* the scanner process is killed: what it held in memory is gone
KillScanner ==
  /\ pc \notin {"idle", "done"}
  /\ kills < MaxKills
  /\ kills' = kills + 1
  /\ pc' = "idle"
  /\ self_config' = NoConfig
  /\ self_state' = create_initial_state
  /\ self_pending' = EmptyApprovals
  /\ start_time' = NoScan
  /\ todo' = <<>>
  /\ device_results' = {}
  /\ io_failed' = {}
  /\ scan_new' = NoNew
  /\ UNCHANGED <<envVars, diskVars, surfVars, next_id, credited>>
  /\ UNCHANGED <<unitVars, mailVars, surf2Vars>>

\* the approval surface is killed inside process_approval_decision
KillSurface ==
  /\ rpc \notin {"idle", "done"}
  /\ kills < MaxKills
  /\ kills' = kills + 1
  /\ rpc' = "idle"
  /\ r_req' = NoReq
  /\ r_state' = create_initial_state
  /\ r_pending' = EmptyApprovals
  /\ r_result' = "none"
  /\ UNCHANGED <<envVars, diskVars, scanVars, next_id, credited>>
  /\ UNCHANGED <<unitVars, mailVars, surf2Vars>>

\* ---------------------------------------------------------- specifications
Environment ==
  \/ Tick
  \/ \E d \in Devices : AddFile(d)

ScannerRest ==
  \/ LoadPending
  \/ StartScan
  \/ ScanDevice
  \/ CompleteBootstrap
  \/ SaveState
  \/ ScanExit

SurfaceRest ==
  \/ SurfaceSavePending
  \/ SurfaceReturn

\* Run to completion: a scan and a request of the approval surface never
\* overlap (the single-writer discipline of the two stores).  A request of the
\* approval surface is served within one instant: it reads neither the clock's
\* progress nor the inboxes, so the environment's steps are taken around it.
\* The scanner reads the clock in StartScan and an inbox in ScanDevice: the
\* environment's steps are taken before a scan and between its enumerations,
\* which covers every order of a file's arrival and the scan's reads.
Next ==
  \/ (rpc = "idle" /\ pc \in {"idle", "scan"} /\ Environment)
  \/ (rpc = "idle" /\ Construct)
  \/ ScannerRest
  \/ (pc = "idle" /\ \E i \in 1..next_id, dec \in Decisions, a \in Approvers :
                       Resolve(i, dec, a))
  \/ (pc = "idle" /\ \E dec \in FormDecisions : SubmitInvalid(dec))
  \/ SurfaceRest

Spec == Init /\ [][Next]_vars

\* Run to completion, and either process may be killed at any point.
NextKill == Next \/ KillScanner \/ KillSurface

SpecKill == Init /\ [][NextKill]_vars

\* No lock is taken on the stores: the approval surface may serve a Resolve
\* while a scan is between its __init__ and its save_state().
NextRace ==
  \/ Next
  \/ (pc \notin {"idle", "done"}
       /\ \E i \in DOMAIN approvals_json.pending, dec \in Decisions, a \in Approvers :
            Resolve(i, dec, a))

SpecRace == Init /\ [][NextRace]_vars

\* No lock is taken on the stores: a scan may run between the approval
\* surface's load of the two documents and its save_state().
NextStale ==
  \/ Next
  \/ (pc \notin {"idle", "done"}
       /\ \E i \in DOMAIN approvals_json.pending, dec \in Decisions, a \in Approvers :
            SurfaceLoad(i, dec, a))
  \/ SurfaceDecide

SpecStale == Init /\ [][NextStale]_vars

\* Run to completion, with the set of enabled devices edited between scans.
NextConfig ==
  \/ Next
  \/ \E d \in Devices : Reconfigure(d)

SpecConfig == Init /\ [][NextConfig]_vars

\* The same program deployed with e-mail notification on.
SpecNotify == InitNotify /\ [][Next]_vars

\* --------------------------------------------------- functions on their own
\* update_device_state called on a counter whose configuration, device record
\* and file counts are the arguments of the call
StatusValues == {"NONE", "PENDING_APPROVAL", "APPROVED", "REJECTED"}
ExcludedChoices == {{}, {"24h"}, {"3h"}, {"12h", "2h"}}

UpdateCalls ==
  [fn : {"update_device_state"},
   device_name : Devices,
   known : BOOLEAN,
   excluded_tiers : ExcludedChoices,
   current_tier : {Tiers[k] : k \in DOMAIN Tiers},
   count : 0..Threshold24,
   approval_status : StatusValues,
   new_files : 0..Threshold24]

\* the device record the call finds in self.state["devices"], if any
CallRecord(c) ==
  [current_tier |-> c.current_tier,
   count |-> c.count,
   approval_status |-> c.approval_status,
   total_files |-> c.count,
   historical_files |-> 0,
   pending_approval_id |-> IF c.approval_status = "PENDING_APPROVAL" THEN 1 ELSE NoId]

CallState(c) ==
  [create_initial_state EXCEPT
     !.devices = IF c.known THEN Put(@, c.device_name, CallRecord(c)) ELSE @]

\* self.pending_approvals: the open request of a pending device
CallPending(c) ==
  IF c.known /\ c.approval_status = "PENDING_APPROVAL"
  THEN create_approval_request(EmptyApprovals, 1, c.device_name, c.current_tier,
                               c.current_tier, c.count)
  ELSE EmptyApprovals

CallCounts(c) ==
  [total_files |-> c.count + c.new_files, historical_files |-> 0,
   new_files |-> c.new_files]

InitAdvance ==
  /\ Installed
  /\ ~config_json.email_enabled
  /\ config_json.bootstrap_mode = "false"
  /\ call \in UpdateCalls
  /\ ret = NoCall

CallUpdate ==
  /\ call.fn = "update_device_state"
  /\ ret = NoCall
  /\ LET cfg == [config_json EXCEPT !.excluded_tiers = call.excluded_tiers]
         upd == update_device_state(cfg, CallState(call), CallPending(call), 2,
                                    call.device_name, CallCounts(call))
     IN ret' = [fn |-> "update_device_state",
                state |-> upd.state,
                pending_approvals |-> upd.pending_approvals,
                created |-> upd.created]
  /\ UNCHANGED <<call, envVars, diskVars, scanVars, surfVars, ghostVars, mailVars,
               surf2Vars>>

SpecAdvance == InitAdvance /\ [][CallUpdate]_vars

\* binary_search_file_count called with an ascending list and a cutoff
SeqsUpTo(S, n) == UNION {[1..k -> S] : k \in 0..n}

CutoffCalls ==
  [fn : {"binary_search_file_count"},
   timestamps : {Sort(ts) : ts \in SeqsUpTo(Instants, MaxLen)},
   cutoff : Instants]

InitCutoff ==
  /\ Installed
  /\ ~config_json.email_enabled
  /\ config_json.bootstrap_mode = "false"
  /\ call \in CutoffCalls
  /\ ret = NoCall

CallCutoff ==
  /\ call.fn = "binary_search_file_count"
  /\ ret = NoCall
  /\ ret' = [fn |-> "binary_search_file_count",
             counts |-> binary_search_file_count(call.timestamps, call.cutoff)]
  /\ UNCHANGED <<call, envVars, diskVars, scanVars, surfVars, ghostVars, mailVars,
               surf2Vars>>

SpecCutoff == InitCutoff /\ [][CallCutoff]_vars

\* One iteration of the loop of scan_all_devices called on a counter whose
\* state, configuration and inbox listing are the arguments of the call.  In
\* the first scan (bootstrap_completed false) no device has a record yet.
ScanCalls ==
  {c \in [fn : {"scan_device"},
          device_name : Devices,
          known : BOOLEAN,
          current_tier : {Tiers[1], Tiers[Len(Tiers)]},
          count : 0..1,
          approval_status : StatusValues,
          bootstrap_completed : BOOLEAN,
          bootstrap_mode : {"true", "false"},
          last_scan : Instants,
          exists : BOOLEAN,
          files : {Sort(ts) : ts \in SeqsUpTo(Instants, MaxLen)}] :
     /\ ~c.bootstrap_completed => (~c.known /\ c.last_scan = 0)
     /\ c.bootstrap_completed => c.bootstrap_mode = "false"
     /\ ~c.known => (/\ c.current_tier = Tiers[1]
                     /\ c.count = 0
                     /\ c.approval_status = "NONE")}

ScanCallState(c) ==
  [last_scan |-> IF c.bootstrap_completed THEN c.last_scan ELSE NoScan,
   bootstrap_completed |-> c.bootstrap_completed,
   devices |-> CallState(c).devices]

InitScan ==
  /\ Installed
  /\ ~config_json.email_enabled
  /\ config_json.bootstrap_mode = "false"
  /\ call \in ScanCalls
  /\ ret = NoCall

CallScan ==
  /\ call.fn = "scan_device"
  /\ ret = NoCall
  /\ LET cfg == [config_json EXCEPT !.bootstrap_mode = call.bootstrap_mode]
         st == ScanCallState(call)
         file_counts == scan_device_optimized(cfg, st, call.device_name,
                                              call.exists, call.files)
         upd == update_device_state(cfg, st, CallPending(call), 2,
                                    call.device_name, file_counts)
     IN ret' = [fn |-> "scan_device",
                file_counts |-> file_counts,
                state |-> upd.state,
                pending_approvals |-> upd.pending_approvals,
                created |-> upd.created]
  /\ UNCHANGED <<call, envVars, diskVars, scanVars, surfVars, ghostVars, mailVars,
               surf2Vars>>

SpecScan == InitScan /\ [][CallScan]_vars

\* fast_file_filter called on its own.  A file name is a sequence of
\* characters; "A" is the one upper-case letter, "*" the glob wildcard.
Chars == {"a", "A", "."}

\* str.lower()
lower(str) == [i \in DOMAIN str |-> IF str[i] = "A" THEN "a" ELSE str[i]]

\* PurePath.suffix: from the last dot on, unless that dot is the first or the
\* last character of the name
suffix(name) ==
  LET dots == {i \in DOMAIN name : name[i] = "."}
  IN IF dots = {} THEN <<>>
     ELSE LET i == CHOOSE j \in dots : \A k \in dots : j >= k
          IN IF 1 < i /\ i < Len(name) THEN SubSeq(name, i, Len(name)) ELSE <<>>

\* PurePath.match with a one-component pattern: fnmatch of the file name
RECURSIVE fnmatch(_, _)
fnmatch(name, pattern) ==
  IF pattern = <<>> THEN name = <<>>
  ELSE IF Head(pattern) = "*"
  THEN \/ fnmatch(name, Tail(pattern))
       \/ (name # <<>> /\ fnmatch(Tail(name), pattern))
  ELSE /\ name # <<>>
       /\ Head(name) = Head(pattern)
       /\ fnmatch(Tail(name), Tail(pattern))

\* _prepare_file_filters: the extensions are lower-cased into a set
prepare_file_filters(file_filtering) ==
  [include_extensions |-> {lower(ext) : ext \in file_filtering.include_extensions},
   exclude_patterns |-> file_filtering.exclude_patterns,
   min_file_size |-> file_filtering.min_file_size_bytes]

\* a size check that also refuses a file of exactly the minimum size
fast_file_filter_SizeStrict(filters, entry_name, entry_size) ==
  IF filters.include_extensions # {}
     /\ lower(suffix(entry_name)) \notin filters.include_extensions
  THEN FALSE
  ELSE IF \E pattern \in filters.exclude_patterns : fnmatch(entry_name, pattern)
  THEN FALSE
  ELSE IF filters.min_file_size > 0 /\ entry_size <= filters.min_file_size
  THEN FALSE
  ELSE TRUE

fast_file_filter(filters, entry_name, entry_size) ==
  IF filters.include_extensions # {}
     /\ lower(suffix(entry_name)) \notin filters.include_extensions
  THEN FALSE
  ELSE IF \E pattern \in filters.exclude_patterns : fnmatch(entry_name, pattern)
  THEN FALSE
  ELSE IF filters.min_file_size > 0 /\ entry_size < filters.min_file_size
  THEN FALSE
  ELSE TRUE

FilterCalls ==
  [fn : {"fast_file_filter"},
   entry_name : {n \in SeqsUpTo(Chars, MaxLen) :
                   n \notin {<<>>, <<".">>, <<".", ".">>}},
   entry_size : 0..MaxSize,
   include_extensions : {{}, {<<".", "a">>}, {<<".", "A">>}},
   exclude_patterns : {{}, {<<"a", "*">>}, {<<"*", ".", "a">>},
                       {<<"a", "*">>, <<"*", "A">>}},
   min_file_size_bytes : 0..MaxSize]

InitFilter ==
  /\ Installed
  /\ ~config_json.email_enabled
  /\ config_json.bootstrap_mode = "false"
  /\ call \in FilterCalls
  /\ ret = NoCall

CallFilter ==
  /\ call.fn = "fast_file_filter"
  /\ ret = NoCall
  /\ ret' = [fn |-> "fast_file_filter",
             accepted |-> fast_file_filter(prepare_file_filters(call),
                                           call.entry_name, call.entry_size)]
  /\ UNCHANGED <<call, envVars, diskVars, scanVars, surfVars, ghostVars, mailVars,
               surf2Vars>>

SpecFilter == InitFilter /\ [][CallFilter]_vars

\* The approval surface called on its own: process_approval_decision on one
\* id, and bulk_process_approval on a list of ids, over drawn documents.  The
\* request with id i is for device Owner(i); a device has a record in
\* state.json if it is in `known`.
Owner(i) == DeviceOrder[((i - 1) % Len(DeviceOrder)) + 1]

SurfaceCalls ==
  {c \in [fn : {"process_approval_decision", "process_approval",
                "bulk_process_approval"},
          approval_ids : SeqsUpTo(Ids, MaxLen),
          decision : FormDecisions,
          approver : Approvers \cup {""},
          pending : SUBSET Ids,
          resolved : SUBSET Ids,
          known : SUBSET Devices] :
     /\ c.pending \cap c.resolved = {}
     /\ c.fn = "process_approval_decision"
          => /\ Len(c.approval_ids) = 1
             /\ c.decision \in Decisions
             /\ c.approver \in Approvers
     /\ c.fn = "process_approval" => Len(c.approval_ids) = 1}

\* pending_approvals.json: the open requests and the earlier decisions
RECURSIVE SurfacePendingOf(_, _)
SurfacePendingOf(c, ids) ==
  IF ids = {}
  THEN EmptyApprovals
  ELSE LET i == CHOOSE j \in ids : \A k \in ids : j >= k
           pa == SurfacePendingOf(c, ids \ {i})
           made == create_approval_request(pa, i, Owner(i), ConfiguredTier(Owner(i)),
                                           eligible_tier(ConfiguredTier(Owner(i)),
                                                         Threshold24),
                                           Threshold24)
       IN IF i \in c.pending
          THEN made
          ELSE [pending |-> pa.pending,
                history |-> Append(pa.history,
                                   Resolved(made.pending[i], "REJECT", "alice", 0))]

SurfacePending(c) == SurfacePendingOf(c, c.pending \cup c.resolved)

\* state.json: a device with an open request is PENDING_APPROVAL
SurfaceState(c) ==
  [last_scan |-> 0,
   bootstrap_completed |-> TRUE,
   devices |->
     [d \in c.known |->
        LET open == {i \in c.pending : Owner(i) = d}
        IN IF open = {}
           THEN [initialize_device_state(d) EXCEPT !.total_files = Threshold24,
                                                   !.historical_files = 1]
           ELSE [initialize_device_state(d) EXCEPT
                   !.count = Threshold24,
                   !.total_files = Threshold24 + 1,
                   !.historical_files = 1,
                   !.approval_status = "PENDING_APPROVAL",
                   !.pending_approval_id = CHOOSE j \in open : \A k \in open : j >= k]]]

InitSurface ==
  /\ Installed
  /\ ~config_json.email_enabled
  /\ config_json.bootstrap_mode = "false"
  /\ call \in SurfaceCalls
  /\ ret = NoCall

CallResolve ==
  /\ call.fn = "process_approval_decision"
  /\ ret = NoCall
  /\ LET res == process_approval_decision(SurfaceState(call), SurfacePending(call),
                                          call.approval_ids[1], call.decision,
                                          call.approver, now + 1)
     IN ret' = [fn |-> "process_approval_decision",
                outcome |-> res.outcome,
                state |-> res.state,
                pending_approvals |-> res.pending_approvals]
  /\ UNCHANGED <<call, envVars, diskVars, scanVars, surfVars, ghostVars, mailVars,
               surf2Vars>>

CallSingle ==
  /\ call.fn = "process_approval"
  /\ ret = NoCall
  /\ LET res == process_approval(SurfaceState(call), SurfacePending(call),
                                 call.approval_ids[1], call.decision,
                                 call.approver, now + 1)
     IN ret' = [fn |-> "process_approval",
                flash |-> res.flash,
                state |-> res.state,
                pending_approvals |-> res.pending_approvals]
  /\ UNCHANGED <<call, envVars, diskVars, scanVars, surfVars, ghostVars, mailVars,
               surf2Vars>>

CallBulk ==
  /\ call.fn = "bulk_process_approval"
  /\ ret = NoCall
  /\ LET res == bulk_process_approval(SurfaceState(call), SurfacePending(call),
                                      call.approval_ids, call.decision,
                                      call.approver, now + 1)
     IN ret' = [fn |-> "bulk_process_approval",
                flash |-> res.flash,
                state |-> res.state,
                pending_approvals |-> res.pending_approvals,
                success_count |-> res.success_count,
                total_count |-> res.total_count]
  /\ UNCHANGED <<call, envVars, diskVars, scanVars, surfVars, ghostVars, mailVars,
               surf2Vars>>

SpecSurface == InitSurface /\ [][CallResolve \/ CallSingle \/ CallBulk]_vars

\* ---------------------------------------- two requests on the same stores
\* the two documents as some scans and decisions left them
SurfaceStores ==
  {c \in [pending : SUBSET Ids, resolved : SUBSET Ids, known : SUBSET Devices] :
     c.pending \cap c.resolved = {}}

InitTwo ==
  /\ now = 0
  /\ inbox = [d \in Devices |-> <<>>]
  /\ config_json = [enabled |-> Devices, excluded_tiers |-> {}, bootstrap_mode |-> "false",
                    bootstrap_used_on_deployment |-> "absent",
                    email_enabled |-> FALSE]
  /\ \E c \in SurfaceStores :
       /\ state_json = SurfaceState(c)
       /\ approvals_json = SurfacePending(c)
  /\ pc = "idle"
  /\ self_config = NoConfig
  /\ self_state = create_initial_state
  /\ self_pending = EmptyApprovals
  /\ start_time = NoScan
  /\ todo = <<>>
  /\ device_results = {}
  /\ io_failed = {}
  /\ scan_new = NoNew
  /\ rpc = "idle"
  /\ r_req = NoReq
  /\ r_state = create_initial_state
  /\ r_pending = EmptyApprovals
  /\ r_result = "none"
  /\ rpc2 = "idle"
  /\ r_req2 = NoReq
  /\ r_state2 = create_initial_state
  /\ r_pending2 = EmptyApprovals
  /\ r_result2 = "none"
  /\ next_id = 1
  /\ kills = 0
  /\ credited = [d \in Devices |-> <<>>]
  /\ outbox = <<>>
  /\ call = NoCall
  /\ ret = NoCall

\* Two users submit one form each while no scan runs; the two threads
\* interleave freely, and each keeps its outcome once it is done.
NextTwo ==
  \/ \E i \in Ids, dec \in Decisions, a \in Approvers : SurfaceLoad(i, dec, a)
  \/ SurfaceDecide
  \/ SurfaceSavePending
  \/ \E i \in Ids, dec \in Decisions, a \in OtherApprovers : Surface2Load(i, dec, a)
  \/ Surface2Decide
  \/ Surface2SavePending

SpecTwo == InitTwo /\ [][NextTwo]_vars

\* ------------------------------------------------- scans without an end
\* The scans of a deployment that never stops.  Instants are not told apart
\* here: every enumeration of an inbox finds between 1 and MaxGain files newer
\* than its cutoff (the inbox keeps gaining files, and is archived after each
\* scan), and the scan's start instant is written as one and the same value.
\* The inbox of a device that has reached the terminal tier gains no more.
GainedCounts(n) == [total_files |-> n, historical_files |-> 0, new_files |-> n]

\* approval ids at hand: more than the requests any run needs
IdSupply == Len(Tiers) * Cardinality(Devices) + MaxRejects

\* run_scan: start_time = datetime.now(); scan_all_devices lists the enabled
\* devices
StartScanAgain ==
  /\ pc = "start"
  /\ start_time' = now + 1
  /\ todo' = EnabledDevices(self_config)
  /\ device_results' = {}
  /\ io_failed' = {}
  /\ scan_new' = NoNew
  /\ pc' = IF EnabledDevices(self_config) = <<>> THEN "done" ELSE "scan"
  /\ UNCHANGED <<self_config, self_state, self_pending>>
  /\ UNCHANGED <<envVars, diskVars, surfVars, ghostVars>>
  /\ UNCHANGED <<unitVars, mailVars, surf2Vars>>

\* one iteration of the loop of scan_all_devices, the enumeration having
\* found n new files; e-mail notification is off
ScanDeviceGained(n) ==
  /\ pc = "scan"
  /\ ~self_config.email_enabled
  /\ n = 0 <=> /\ Head(todo) \in DOMAIN self_state.devices
               /\ self_state.devices[Head(todo)].current_tier = "2h"
  /\ LET d == Head(todo)
         upd == update_device_state(self_config, self_state, self_pending,
                                    next_id, d, GainedCounts(n))
     IN /\ upd.created => next_id <= IdSupply
        /\ self_state' = upd.state
        /\ self_pending' = upd.pending_approvals
        /\ approvals_json' = IF upd.created THEN upd.pending_approvals
                                             ELSE approvals_json
        /\ next_id' = IF upd.created THEN next_id + 1 ELSE next_id
        /\ device_results' = device_results \cup {d}
        /\ todo' = Tail(todo)
        /\ pc' = IF Tail(todo) # <<>> THEN "scan"
                 ELSE IF ~self_state.bootstrap_completed THEN "bootstrap"
                 ELSE "save"
  /\ UNCHANGED <<self_config, start_time, io_failed, scan_new>>
  /\ UNCHANGED <<envVars, config_json, state_json, surfVars, kills, credited>>
  /\ UNCHANGED <<unitVars, mailVars, surf2Vars>>

\* the scanner: cron starts it again and again, and each run goes to its end
ScanForever ==
  \/ (rpc = "idle" /\ Construct)
  \/ LoadPending
  \/ StartScanAgain
  \/ \E n \in 0..MaxGain : ScanDeviceGained(n)
  \/ CompleteBootstrap
  \/ SaveState
  \/ ScanExit

\* the approver answers every request the surface lists with APPROVE, whatever
\* the scanner is doing at that moment
ApproveListed ==
  \/ \E i \in DOMAIN approvals_json.pending, a \in Approvers : Resolve(i, "APPROVE", a)
  \/ SurfaceSavePending
  \/ SurfaceReturn

\* some of the first requests are answered with REJECT instead
RejectListed ==
  \E i \in DOMAIN approvals_json.pending \cap 1..MaxRejects, a \in Approvers :
    Resolve(i, "REJECT", a)

InitProgress ==
  /\ Init
  /\ config_json.bootstrap_mode = "false"

NextProgress == ScanForever \/ ApproveListed \/ RejectListed

SpecProgress ==
  /\ InitProgress
  /\ [][NextProgress]_vars
  /\ WF_vars(ScanForever)
  /\ WF_vars(ApproveListed)

\* -------------------------------------------------------------- properties
\* the PENDING requests of a device in an approval document
PendingOf(pa, d) ==
  {i \in DOMAIN pa.pending :
     pa.pending[i].device_name = d /\ pa.pending[i].status = "PENDING"}

\* the resolved requests of an approval document with the given id
HistoryOf(pa, approval_id) ==
  {k \in DOMAIN pa.history : pa.history[k].approval_id = approval_id}

TierIndex(tier) == CHOOSE k \in DOMAIN Tiers : Tiers[k] = tier

\* the device record but for its two observational counters
Frozen(before, after) ==
  after = [before EXCEPT !.total_files = after.total_files,
                         !.historical_files = after.historical_files]

\* this step is process_approval_decision succeeding on a pending id
ResolveStep == rpc = "idle" /\ rpc' = "save_pending"

\* C1: while a device is PENDING_APPROVAL, no step of a scan changes its count
\* (or anything but total_files / historical_files), in the scanner's copy and
\* in state.json, whatever files its inbox holds.
C1_FreezeInvariant ==
  [][/\ \A d \in DOMAIN self_state.devices :
          (pc \in {"scan", "bootstrap", "save"}
             /\ self_state.devices[d].approval_status = "PENDING_APPROVAL")
          => /\ d \in DOMAIN self_state'.devices
             /\ self_state'.devices[d].count = self_state.devices[d].count
             /\ Frozen(self_state.devices[d], self_state'.devices[d])
     /\ \A d \in DOMAIN state_json.devices :
          (pc # "idle" /\ state_json.devices[d].approval_status = "PENDING_APPROVAL")
          => /\ d \in DOMAIN state_json'.devices
             /\ state_json'.devices[d].count = state_json.devices[d].count
             /\ Frozen(state_json.devices[d], state_json'.devices[d])]_vars

\* a pending device has been scanned with files newer than the last scan in its
\* inbox: its totals are refreshed and its count is the persisted one
C1_Witness ==
  /\ pc = "save"
  /\ \E d \in DOMAIN state_json.devices :
       /\ state_json.devices[d].approval_status = "PENDING_APPROVAL"
       /\ self_state.devices[d].total_files > state_json.devices[d].total_files
       /\ self_state.devices[d].count = state_json.devices[d].count
       /\ \E i \in DOMAIN inbox[d] : inbox[d][i] > state_json.last_scan

\* C2: with scans and resolutions each running to completion, a device never
\* has more than one PENDING request in the pending set of
\* pending_approvals.json (nor in the scanner's copy of it).
C2_AtMostOnePending ==
  \A d \in Devices :
    /\ Cardinality(PendingOf(approvals_json, d)) <= 1
    /\ Cardinality(PendingOf(self_pending, d)) <= 1

\* a device that is pending, with its count at the threshold, has been scanned
\* again with new files in its inbox, and still has its one request
C2_Witness ==
  /\ pc = "save"
  /\ \E d \in device_results \cap DOMAIN state_json.devices :
       /\ state_json.devices[d].approval_status = "PENDING_APPROVAL"
       /\ self_state.devices[d].total_files = Len(inbox[d])
       /\ \E i \in DOMAIN inbox[d] : inbox[d][i] > state_json.last_scan
       /\ Cardinality(PendingOf(approvals_json, d)) = 1

\* C3: a Resolve that succeeds on a pending id leaves the device with count 0
\* and approval_status APPROVED resp. REJECTED; current_tier is the request's
\* proposed_tier on APPROVE and unchanged on REJECT; and so it stands in
\* state.json when Resolve has returned True.
C3_ResetOnResolution ==
  [][/\ ResolveStep =>
          LET req == approvals_json.pending[r_req'.approval_id]
              before == state_json.devices[req.device_name]
              after == state_json'.devices[req.device_name]
          IN /\ after.count = 0
             /\ r_state'.devices[req.device_name] = after
             /\ r_req'.decision = "APPROVE"
                  => /\ after.approval_status = "APPROVED"
                     /\ after.current_tier = req.proposed_tier
             /\ r_req'.decision = "REJECT"
                  => /\ after.approval_status = "REJECTED"
                     /\ after.current_tier = before.current_tier
     /\ (rpc = "save_pending" /\ rpc' = "done")
          => /\ r_result' = "success"
             /\ state_json' = state_json
             /\ state_json'.devices[r_pending.history[Len(r_pending.history)].device_name].count = 0
    ]_vars

\* Resolve has returned True for a REJECT of a request with a positive
\* unit_count, after an APPROVE of another request
C3_Witness ==
  /\ rpc = "done"
  /\ r_result = "success"
  /\ r_req.decision = "REJECT"
  /\ \E k \in HistoryOf(approvals_json, r_req.approval_id) :
       approvals_json.history[k].unit_count > 0
  /\ \E k \in DOMAIN approvals_json.history :
       approvals_json.history[k].status = "APPROVE"

\* C4: the current_tier of an existing device record changes, in state.json and
\* in the scanner's copy, only in the step in which Resolve applies an APPROVE
\* decision to a request of that device; no record is ever deleted by a scan.
C4_TierOnlyByApprove ==
  [][/\ \A d \in DOMAIN state_json.devices :
          /\ d \in DOMAIN state_json'.devices
          /\ state_json'.devices[d].current_tier # state_json.devices[d].current_tier
               => /\ ResolveStep
                  /\ r_req'.decision = "APPROVE"
                  /\ approvals_json.pending[r_req'.approval_id].device_name = d
     /\ \A d \in DOMAIN self_state.devices \cap DOMAIN self_state'.devices :
          self_state'.devices[d].current_tier = self_state.devices[d].current_tier
    ]_vars

\* an APPROVE has just moved a device off its configured tier, after the scan
\* that counted its files and created the request left the tier alone
C4_Witness ==
  /\ rpc = "save_pending"
  /\ r_req.decision = "APPROVE"
  /\ \E d \in DOMAIN state_json.devices :
       /\ state_json.devices[d].current_tier # ConfiguredTier(d)
       /\ \E k \in DOMAIN r_pending.history :
            /\ r_pending.history[k].device_name = d
            /\ r_pending.history[k].current_tier = ConfiguredTier(d)

\* C5: every change of a device's current_tier is a move to the next tier of
\* 24h, 12h, 6h, 3h, 2h, and every approved request moves it by exactly one.
C5_NoDoubleAdvance ==
  [][\A d \in DOMAIN state_json.devices \cap DOMAIN state_json'.devices :
       LET a == TierIndex(state_json.devices[d].current_tier)
           b == TierIndex(state_json'.devices[d].current_tier)
       IN /\ b = a \/ b = a + 1
          /\ (/\ ResolveStep
              /\ r_req'.decision = "APPROVE"
              /\ approvals_json.pending[r_req'.approval_id].device_name = d)
               => b = a + 1
    ]_vars

\* a device has been approved twice and stands two tiers after its configured one
C5_Witness ==
  \E d \in DOMAIN state_json.devices :
    /\ TierIndex(state_json.devices[d].current_tier) = TierIndex(ConfiguredTier(d)) + 2
    /\ Cardinality({k \in DOMAIN approvals_json.history :
                      /\ approvals_json.history[k].device_name = d
                      /\ approvals_json.history[k].status = "APPROVE"}) = 2

\* C6: no file is added to count by more than one completed scan.
C6_NoFileCountedTwice ==
  \A d \in Devices : \A i \in DOMAIN credited[d] : credited[d][i] <= 1

\* C7: no counted unit is lost.  For a device that was never PENDING_APPROVAL,
\* with bootstrap disabled, a file newer than the production start is added to
\* count by the first completed scan that starts after it was written; once
\* last_scan is past the file's mtime no later scan can count it, so at that
\* point it has been counted.
C7_NoUnitLost ==
  (pc = "idle" /\ rpc = "idle")
  => \A d \in config_json.enabled :
       (/\ \/ config_json.bootstrap_mode = "false"
           \/ config_json.bootstrap_used_on_deployment = "false"
        /\ d \in DOMAIN state_json.devices
        /\ state_json.devices[d].approval_status = "NONE")
       => \A i \in DOMAIN inbox[d] :
            (inbox[d][i] > get_device_production_start_date(d)
               /\ inbox[d][i] < state_json.last_scan)
            => credited[d][i] >= 1

\* C8: a Resolve on an id that is not in the pending set returns False and
\* changes neither state.json nor pending_approvals.json, and nothing is
\* written afterwards.
C8_ResolveNotFound ==
  [][/\ (/\ rpc = "idle"
         /\ rpc' # "idle"
         /\ r_req'.decision \in Decisions
         /\ r_req'.approval_id \notin DOMAIN approvals_json.pending)
          => /\ rpc' = "done"
             /\ r_result' = "failed"
             /\ r_state' = state_json
             /\ r_pending' = approvals_json
             /\ UNCHANGED <<state_json, approvals_json>>
     /\ rpc = "done" => UNCHANGED <<state_json, approvals_json>>
    ]_vars

\* Resolve has returned False for an id that an earlier Resolve moved to history
C8_Witness ==
  /\ rpc = "done"
  /\ r_result = "failed"
  /\ HistoryOf(approvals_json, r_req.approval_id) # {}

\* C9: wherever process_approval_decision can be stopped after it found the id,
\* the two documents agree: both show the resolution, or neither does.
C9_ResolveAtomic ==
  rpc = "save_pending"
  => LET i == r_req.approval_id
         d == r_pending.history[Len(r_pending.history)].device_name
     IN \/ /\ i \notin DOMAIN approvals_json.pending
           /\ HistoryOf(approvals_json, i) # {}
           /\ state_json.devices[d].approval_status \in {"APPROVED", "REJECTED"}
        \/ /\ i \in DOMAIN approvals_json.pending
           /\ state_json.devices[d].approval_status = "PENDING_APPROVAL"
           /\ state_json.devices[d].pending_approval_id = i

\* C10: a scan that is killed and run again does not apply a transition twice:
\* when a scan has completed, no device has a second PENDING request in
\* pending_approvals.json.
C10_KillRerunNoSecondRequest ==
  pc \in {"idle", "done"}
  => \A d \in Devices : Cardinality(PendingOf(approvals_json, d)) < 2

\* the resolved requests of a device in an approval document
ResolvedOf(pa, d) == {k \in DOMAIN pa.history : pa.history[k].device_name = d}

\* the latest resolved request of a device that has one
LastResolved(pa, d) ==
  pa.history[CHOOSE k \in ResolvedOf(pa, d) : \A j \in ResolvedOf(pa, d) : j <= k]

\* C11: a Resolve served while a scan is running is not lost.  When both
\* processes have finished, a device whose latest request was resolved and that
\* has no open request since shows that resolution in state.json: status
\* APPROVED resp. REJECTED, the proposed tier after an APPROVE, and no
\* pending_approval_id.
C11_RaceBenign ==
  (pc = "idle" /\ rpc = "idle")
  => \A d \in DOMAIN state_json.devices :
       (ResolvedOf(approvals_json, d) # {} /\ PendingOf(approvals_json, d) = {})
       => LET req == LastResolved(approvals_json, d)
              ds == state_json.devices[d]
          IN /\ ds.pending_approval_id = NoId
             /\ req.status = "APPROVE"
                  => ds.approval_status = "APPROVED" /\ ds.current_tier = req.proposed_tier
             /\ req.status = "REJECT"
                  => ds.approval_status = "REJECTED" /\ ds.current_tier = req.current_tier

\* C12: in state.json a device record has a pending_approval_id exactly when
\* its approval_status is PENDING_APPROVAL, and the id names a request of that
\* device in the pending set of pending_approvals.json.
C12_PendingIdIffPending ==
  \A d \in DOMAIN state_json.devices :
    LET ds == state_json.devices[d]
    IN /\ ds.pending_approval_id # NoId <=> ds.approval_status = "PENDING_APPROVAL"
       /\ ds.pending_approval_id # NoId
            => /\ ds.pending_approval_id \in DOMAIN approvals_json.pending
               /\ approvals_json.pending[ds.pending_approval_id].device_name = d

\* tier_requirements of the step that leaves a tier; none leaves the last tier
Threshold(tier) ==
  CASE tier = "24h" -> tier_requirements["24h_to_12h"]
    [] tier = "12h" -> tier_requirements["12h_to_6h"]
    [] tier = "6h" -> tier_requirements["6h_to_3h"]
    [] tier = "3h" -> tier_requirements["3h_to_2h"]

\* the device record update_device_state starts from
Before(c) == IF c.known THEN CallRecord(c) ELSE initialize_device_state(c.device_name)

\* the advancement rule for a call of update_device_state
Due(c) ==
  /\ Before(c).approval_status # "PENDING_APPROVAL"
  /\ Before(c).current_tier # Tiers[Len(Tiers)]
  /\ Before(c).current_tier \notin c.excluded_tiers
  /\ Before(c).count + c.new_files >= Threshold(Before(c).current_tier)

C14_ProposedIsNextTier ==
  (ret.fn = "update_device_state" /\ ret.created)
  => LET d == call.device_name
         req == ret.pending_approvals.pending[ret.state.devices[d].pending_approval_id]
     IN /\ req.device_name = d
        /\ req.current_tier = Before(call).current_tier
        /\ ret.state.devices[d].current_tier = req.current_tier
        /\ TierIndex(req.proposed_tier) = TierIndex(req.current_tier) + 1

\* a request is created for a device at 6h whose last request was rejected
C14_Witness ==
  /\ ret.fn = "update_device_state"
  /\ ret.created
  /\ call.known
  /\ call.current_tier = "6h"
  /\ call.approval_status = "REJECTED"

\* C15: for an ascending list and a cutoff, binary_search_file_count returns
\* historical + new = total = the length of the list, and historical is the
\* number of timestamps strictly less than the cutoff.
C15_CutoffCounter ==
  ret.fn = "binary_search_file_count"
  => LET ts == call.timestamps
         c == ret.counts
     IN /\ c.total_files = Len(ts)
        /\ c.historical_files + c.new_files = c.total_files
        /\ c.historical_files = Cardinality({i \in DOMAIN ts : ts[i] < call.cutoff})

\* a full list with timestamps before, at and after the cutoff has been counted
C15_Witness ==
  /\ ret.fn = "binary_search_file_count"
  /\ Len(call.timestamps) = MaxLen
  /\ \E i, j, k \in DOMAIN call.timestamps :
       /\ call.timestamps[i] < call.cutoff
       /\ call.timestamps[j] = call.cutoff
       /\ call.timestamps[k] > call.cutoff

\* C16: a file whose timestamp equals the cutoff is counted as historical: it
\* lies in the first historical_files entries of the ascending list.
C16_TieIsHistorical ==
  ret.fn = "binary_search_file_count"
  => \A i \in DOMAIN call.timestamps :
       call.timestamps[i] = call.cutoff => i <= ret.counts.historical_files

\* C17: the empty list gives three zeros; a cutoff before the earliest
\* timestamp gives new = total and historical = 0; a cutoff after the latest
\* gives historical = total and new = 0.
C17_CutoffEdgeCases ==
  ret.fn = "binary_search_file_count"
  => LET ts == call.timestamps
         c == ret.counts
     IN /\ ts = <<>> => c = ZeroCounts
        /\ (ts # <<>> /\ call.cutoff < ts[1])
             => c.new_files = c.total_files /\ c.historical_files = 0
                  /\ c.total_files = Len(ts)
        /\ (ts # <<>> /\ call.cutoff > ts[Len(ts)])
             => c.historical_files = c.total_files /\ c.new_files = 0
                  /\ c.total_files = Len(ts)

\* a full list has been counted with a cutoff before its earliest timestamp
C17_Witness ==
  /\ ret.fn = "binary_search_file_count"
  /\ Len(call.timestamps) = MaxLen
  /\ call.cutoff < call.timestamps[1]
  /\ ret.counts.new_files = MaxLen

\* C18: files are only ever added to an inbox, and the total_files and
\* historical_files of a device record in state.json never decrease.
C18_TotalsMonotonic ==
  [][\A d \in DOMAIN state_json.devices :
       /\ d \in DOMAIN state_json'.devices
       /\ state_json'.devices[d].total_files >= state_json.devices[d].total_files
       /\ state_json'.devices[d].historical_files
            >= state_json.devices[d].historical_files]_vars

\* C19: in the first scan (bootstrap_completed false) with bootstrap_mode set,
\* the scan of each device classifies every file it enumerates as historical:
\* the device's count stays 0, its status NONE, and no request is created.
C19_BootstrapAllHistorical ==
  [][(/\ pc = "scan"
      /\ todo' = Tail(todo)
      /\ ~self_state.bootstrap_completed
      /\ self_config.bootstrap_mode = "true")
     => LET d == Head(todo)
            ds == self_state'.devices[d]
        IN /\ ds.count = 0
           /\ ds.approval_status = "NONE"
           /\ ds.historical_files = ds.total_files
           /\ d \notin io_failed' => ds.total_files = Len(inbox[d])
           /\ scan_new'[d] = {}
           /\ UNCHANGED <<approvals_json, self_pending, next_id>>]_vars

\* the first scan, with bootstrap_mode set, has enumerated an inbox that holds
\* enough files newer than the production start to reach the tier's threshold
C19_Witness ==
  /\ pc = "bootstrap"
  /\ config_json.bootstrap_mode = "true"
  /\ \E d \in device_results \ io_failed :
       /\ self_state.devices[d].total_files >= Threshold(ConfiguredTier(d))
       /\ self_state.devices[d].total_files = Len(inbox[d])
       /\ \A i \in DOMAIN inbox[d] : inbox[d][i] > get_device_production_start_date(d)

\* C20: once the first scan has completed (bootstrap_completed is true in
\* state.json) the bootstrap flag is no longer set in config.json.
C20_BootstrapFlagCleared ==
  state_json.bootstrap_completed => config_json.bootstrap_mode # "true"

\* the files of a listing with a timestamp after an instant
FilesAfter(files, t) == {i \in DOMAIN files : files[i] > t}

\* C21: in the first scan with bootstrap disabled, a device whose inbox is
\* read gets as count the number of files after its production start date,
\* and when that number reaches the threshold of its tier the scan creates a
\* request and leaves the device PENDING_APPROVAL.
C21_FirstScanCountsFromProdStart ==
  (/\ ret.fn = "scan_device"
   /\ ~call.bootstrap_completed
   /\ call.bootstrap_mode = "false"
   /\ call.exists)
  => LET d == call.device_name
         n == Cardinality(FilesAfter(call.files, get_device_production_start_date(d)))
         ds == ret.state.devices[d]
     IN /\ ds.count = n
        /\ n >= Threshold(ConfiguredTier(d))
             => /\ ret.created
                /\ ds.approval_status = "PENDING_APPROVAL"

\* C22: in the scan that first observes a device (it has no record yet), in
\* the first scan ever or in a later one, no file with a timestamp at or
\* before the device's production start date contributes to count.
C22_ProdStartFilesHistorical ==
  (ret.fn = "scan_device" /\ ~call.known)
  => LET d == call.device_name
     IN ret.state.devices[d].count
          <= Cardinality(FilesAfter(call.files, get_device_production_start_date(d)))

\* C23: in an incremental scan of a device that is not PENDING_APPROVAL and
\* whose inbox is read, count grows by the number of files with a timestamp
\* after last_scan.
C23_IncrementalCount ==
  (/\ ret.fn = "scan_device"
   /\ call.bootstrap_completed
   /\ call.exists
   /\ Before(call).approval_status # "PENDING_APPROVAL")
  => ret.state.devices[call.device_name].count
       = Before(call).count + Cardinality(FilesAfter(call.files, call.last_scan))

\* C24: a process_approval_decision that returns True appends the request to
\* the history log with status = the decision, the decision date and the
\* given approver, removes it from the pending set and clears the device's
\* pending_approval_id; afterwards the id is in history and not in pending.
C24_ResolveMovesToHistory ==
  (ret.fn = "process_approval_decision" /\ ret.outcome = "ok")
  => LET i == call.approval_ids[1]
         before == SurfacePending(call)
         after == ret.pending_approvals
         req == before.pending[i]
     IN /\ i \notin DOMAIN after.pending
        /\ after.history
             = Append(before.history,
                      [req EXCEPT !.status = call.decision,
                                  !.decision_date = now + 1,
                                  !.approver = call.approver])
        /\ HistoryOf(after, i) = {Len(after.history)}
        /\ ret.state.devices[req.device_name].pending_approval_id = NoId

\* an APPROVE has returned True while the log held an earlier decision
C24_Witness ==
  /\ ret.fn = "process_approval_decision"
  /\ ret.outcome = "ok"
  /\ call.decision = "APPROVE"
  /\ Len(ret.pending_approvals.history) >= 2
  /\ ret.pending_approvals.history[Len(ret.pending_approvals.history)].approver = "alice"

\* the distinct ids of a submitted list
IdsOf(approval_ids) == {approval_ids[k] : k \in DOMAIN approval_ids}

\* C25: bulk_process_approval with a valid decision and approver resolves
\* every listed id that is pending (request in history with the decision, out
\* of the pending set, device reset), wherever the failing ids stand in the
\* list; the other requests and devices are unchanged; success_count is the
\* number of listed ids that were pending.
C25_BulkIndependent ==
  (/\ ret.fn = "bulk_process_approval"
   /\ call.decision \in Decisions
   /\ call.approver # "")
  => LET before == SurfacePending(call)
         after == ret.pending_approvals
         hit == IdsOf(call.approval_ids) \cap call.pending
     IN /\ \A i \in hit :
             /\ i \notin DOMAIN after.pending
             /\ \E k \in HistoryOf(after, i) : after.history[k].status = call.decision
             /\ Owner(i) \in DOMAIN ret.state.devices
             /\ ret.state.devices[Owner(i)].count = 0
             /\ ret.state.devices[Owner(i)].approval_status
                  = (IF call.decision = "APPROVE" THEN "APPROVED" ELSE "REJECTED")
        /\ \A j \in call.pending \ hit :
             j \in DOMAIN after.pending /\ after.pending[j] = before.pending[j]
        /\ Len(after.history) = Len(before.history) + Cardinality(hit)
        /\ \A d \in call.known :
             (\A i \in hit : Owner(i) # d)
               => ret.state.devices[d] = SurfaceState(call).devices[d]
        /\ ret.success_count = Cardinality(hit)

\* C30: process_approval_decision leaves total_files and historical_files of
\* the resolved device, the record of every other device and every other
\* pending request as they were.
C30_ResolveFrame ==
  ret.fn = "process_approval_decision"
  => LET i == call.approval_ids[1]
         st == SurfaceState(call)
         before == SurfacePending(call)
         after == ret.pending_approvals
     IN /\ DOMAIN ret.state.devices = DOMAIN st.devices
        /\ \A d \in DOMAIN st.devices :
             /\ ret.state.devices[d].total_files = st.devices[d].total_files
             /\ ret.state.devices[d].historical_files = st.devices[d].historical_files
             /\ (ret.outcome # "ok" \/ d # before.pending[i].device_name)
                  => ret.state.devices[d] = st.devices[d]
        /\ \A j \in DOMAIN before.pending \ {i} :
             j \in DOMAIN after.pending /\ after.pending[j] = before.pending[j]
        /\ DOMAIN after.pending = DOMAIN before.pending \ {k \in {i} : ret.outcome = "ok"}

\* a request was resolved while another device had its own open request
C30_Witness ==
  /\ ret.fn = "process_approval_decision"
  /\ ret.outcome = "ok"
  /\ ret.state.devices[Owner(call.approval_ids[1])].total_files > 0
  /\ \E d \in DOMAIN ret.state.devices :
       /\ d # Owner(call.approval_ids[1])
       /\ ret.state.devices[d].approval_status = "PENDING_APPROVAL"
       /\ ret.pending_approvals.pending # << >>

\* this step hands an e-mail to SMTP; Mail is that e-mail
NotifyStep == Len(outbox') = Len(outbox) + 1
Mail == outbox'[Len(outbox')]

\* the device record shows the request as open
MarkedPending(st, d, approval_id) ==
  /\ d \in DOMAIN st.devices
  /\ st.devices[d].approval_status = "PENDING_APPROVAL"
  /\ st.devices[d].pending_approval_id = approval_id

\* C26: when the SMTP session fails for a request just created, the request
\* is in the pending set (on disk and in the scanner's copy), the device is
\* PENDING_APPROVAL with that pending_approval_id, the scan goes on with the
\* remaining devices, and the scan's save_state persists the device so.
C26_NotifyFailureKeepsWorkflow ==
  [][/\ (NotifyStep /\ ~Mail.delivered)
          => /\ Mail.approval_id \in DOMAIN approvals_json'.pending
             /\ approvals_json'.pending[Mail.approval_id].status = "PENDING"
             /\ self_pending' = approvals_json'
             /\ MarkedPending(self_state', Mail.device_name, Mail.approval_id)
             /\ todo' = Tail(todo)
             /\ pc' = (IF todo' # <<>> THEN "scan"
                       ELSE IF ~self_state.bootstrap_completed THEN "bootstrap"
                       ELSE "save")
     /\ (pc = "save" /\ pc' = "done")
          => \A k \in DOMAIN outbox :
               (~outbox[k].delivered
                  /\ outbox[k].approval_id \in DOMAIN approvals_json.pending)
                 => MarkedPending(state_json', outbox[k].device_name,
                                  outbox[k].approval_id)
    ]_vars

\* a scan has saved its state after the e-mail of its first device failed
\* and its second device was scanned
C26_Witness ==
  /\ pc = "done"
  /\ state_json.last_scan = start_time
  /\ Len(outbox) >= 1
  /\ ~outbox[Len(outbox)].delivered
  /\ outbox[Len(outbox)].device_name = DeviceOrder[1]
  /\ MarkedPending(state_json, DeviceOrder[1], outbox[Len(outbox)].approval_id)
  /\ device_results = Devices

\* C28: when the notifier is invoked for a request, state.json already shows
\* the request's device as PENDING_APPROVAL with that request.
C28_StateSavedBeforeNotify ==
  [][NotifyStep => MarkedPending(state_json, Mail.device_name, Mail.approval_id)]_vars

\* the count of a device in a state document, 0 before it has a record
CountOf(st, d) == IF d \in DOMAIN st.devices THEN st.devices[d].count ELSE 0

\* this step is process_approval_decision saving a decision on a request of d
DecisionOn(d) ==
  /\ rpc # "save_pending"
  /\ rpc' = "save_pending"
  /\ r_pending'.history[Len(r_pending'.history)].device_name = d

\* C29: in no step does the count of a device in state.json go down, except
\* to 0 in the step that saves a decision (APPROVE or REJECT) on a request of
\* that device.
C29_CountNeverDecremented ==
  [][\A d \in Devices :
       CountOf(state_json', d) < CountOf(state_json, d)
         => /\ CountOf(state_json', d) = 0
            /\ DecisionOn(d)
    ]_vars

C31_HistoryTerminal ==
  [][\A k \in DOMAIN approvals_json.history :
       /\ k \in DOMAIN approvals_json'.history
       /\ approvals_json'.history[k] = approvals_json.history[k]
       /\ approvals_json.history[k].approval_id \notin DOMAIN approvals_json'.pending
    ]_vars

\* C32: update_device_state never creates a request for a device whose
\* current_tier is 2h, whatever its count: the pending set and the approval
\* status are as before, and no open request carries current_tier 2h.
C32_TerminalTierNoRequest ==
  (ret.fn = "update_device_state" /\ Before(call).current_tier = Tiers[Len(Tiers)])
  => LET d == call.device_name
         after == ret.state.devices[d]
     IN /\ ~ret.created
        /\ ret.pending_approvals = CallPending(call)
        /\ after.current_tier = Tiers[Len(Tiers)]
        /\ after.approval_status = Before(call).approval_status
        /\ after.pending_approval_id = Before(call).pending_approval_id
        /\ Before(call).approval_status # "PENDING_APPROVAL"
             => after.count = Before(call).count + call.new_files

\* a device at 2h, approved before, has been given a count of twice the
\* largest threshold
C32_Witness ==
  /\ ret.fn = "update_device_state"
  /\ call.known
  /\ call.current_tier = "2h"
  /\ call.approval_status = "APPROVED"
  /\ call.excluded_tiers = {}
  /\ ret.state.devices[call.device_name].count = 2 * Threshold24

\* C33: no step of a scan changes or removes, in the scanner's state, the
\* record of a device that its configuration has disabled, and the scan's
\* save_state leaves that record in state.json as it was.
C33_DisabledSkipped ==
  [][\A d \in Devices \ self_config.enabled :
       /\ (pc \in {"start", "scan", "bootstrap", "save"}
             /\ d \in DOMAIN self_state.devices)
            => /\ d \in DOMAIN self_state'.devices
               /\ self_state'.devices[d] = self_state.devices[d]
       /\ (pc # "idle" /\ rpc = "idle" /\ rpc' = "idle"
             /\ d \in DOMAIN state_json.devices)
            => /\ d \in DOMAIN state_json'.devices
               /\ state_json'.devices[d] = state_json.devices[d]
    ]_vars

\* a scan has saved its state; d1 is disabled, has a record with a count and
\* an inbox with more files than were counted
C33_Witness ==
  /\ pc = "done"
  /\ state_json.last_scan = start_time
  /\ DeviceOrder[1] \notin self_config.enabled
  /\ DeviceOrder[1] \in DOMAIN state_json.devices
  /\ state_json.devices[DeviceOrder[1]].count > 0
  /\ Len(inbox[DeviceOrder[1]]) > state_json.devices[DeviceOrder[1]].total_files

\* the extension of a file name, letter case aside: what follows the last
\* dot, the dot included, when there is a name before it and text after it
ExtensionOf(name) ==
  IF \E i \in 2..(Len(name) - 1) :
       name[i] = "." /\ \A j \in (i + 1)..Len(name) : name[j] # "."
  THEN LET i == CHOOSE k \in 2..(Len(name) - 1) :
                  name[k] = "." /\ \A j \in (k + 1)..Len(name) : name[j] # "."
       IN [j \in 1..(Len(name) - i + 1) |-> name[i + j - 1]]
  ELSE <<>>

SameButCase(x, y) ==
  /\ Len(x) = Len(y)
  /\ \A i \in DOMAIN x : x[i] = y[i] \/ {x[i], y[i]} = {"a", "A"}

\* a glob matches a name when the name can be cut into one piece per pattern
\* character: any piece for "*", the character itself otherwise
Globbed(name, pattern) ==
  \E cut \in [1..(Len(pattern) + 1) -> 0..Len(name)] :
    /\ cut[1] = 0
    /\ cut[Len(pattern) + 1] = Len(name)
    /\ \A k \in DOMAIN pattern :
         /\ cut[k] <= cut[k + 1]
         /\ pattern[k] # "*"
              => (cut[k + 1] = cut[k] + 1 /\ name[cut[k + 1]] = pattern[k])

C35_OnlyApproveReject ==
  (/\ ret.fn \in {"process_approval", "bulk_process_approval"}
   /\ call.decision \notin Decisions)
  => /\ ret.flash \in {"invalid", "missing"}
     /\ ret.state = SurfaceState(call)
     /\ ret.pending_approvals = SurfacePending(call)
     /\ \A i \in call.pending :
          /\ i \in DOMAIN ret.pending_approvals.pending
          /\ Owner(i) \in call.known
               => ret.state.devices[Owner(i)].approval_status = "PENDING_APPROVAL"

\* process_approval has refused another decision value for a pending request
\* whose device is PENDING_APPROVAL
C35_Witness ==
  /\ ret.fn = "process_approval"
  /\ ret.flash = "invalid"
  /\ call.decision = "OTHER"
  /\ call.approver = "alice"
  /\ call.approval_ids[1] \in call.pending
  /\ MarkedPending(ret.state, Owner(call.approval_ids[1]), call.approval_ids[1])

\* C36: in every reachable state, every request in the pending set of
\* pending_approvals.json has a unit_count equal to the count of its device
\* in state.json and at least the threshold of its current_tier.
C36_PendingUnitCount ==
  \A i \in DOMAIN approvals_json.pending :
    LET req == approvals_json.pending[i]
    IN /\ req.unit_count = CountOf(state_json, req.device_name)
       /\ req.unit_count >= Threshold(req.current_tier)

\* C37: in every reachable state, every request in the pending set of
\* pending_approvals.json names a device with a record in state.json, and no
\* Resolve of the approval surface has failed with an exception.
C37_PendingHasDevice ==
  /\ \A i \in DOMAIN approvals_json.pending :
       approvals_json.pending[i].device_name \in DOMAIN state_json.devices
  /\ r_result # "error"

\* C38: when two requests of the approval surface resolve the same pending id
\* concurrently, each on its own copy of the two stores, at most one of them
\* reports success, and pending_approvals.json ends with one history entry
\* for that id.
C38_OneConcurrentWinner ==
  /\ ~(/\ rpc = "done" /\ rpc2 = "done"
       /\ r_req.approval_id = r_req2.approval_id
       /\ r_result = "success" /\ r_result2 = "success")
  /\ \A i \in Ids : Cardinality(HistoryOf(approvals_json, i)) <= 1

\* C40: last_scan of state.json changes only in the step in which a scan
\* completes (run_scan's save_state), its new value is that scan's start
\* instant, and it never goes back; a scan that finds no enabled device
\* returns with state.json (last_scan, bootstrap_completed and the rest) and
\* its own copy of the state as they were.
C40_LastScan ==
  [][/\ state_json'.last_scan # state_json.last_scan
        => /\ pc = "save" /\ pc' = "done"
           /\ state_json'.last_scan = start_time
           /\ state_json'.last_scan >= state_json.last_scan
     /\ (pc = "start" /\ pc' # "start" /\ pc' # "idle"
           /\ EnabledDevices(self_config) = <<>>)
        => /\ pc' = "done"
           /\ state_json' = state_json
           /\ self_state' = self_state]_vars

\* C39: progress.  With scans that keep running, inboxes that keep gaining
\* files and every listed request answered (all but a few with APPROVE), every
\* device eventually reaches the terminal tier 2h; and a device whose request
\* was answered with REJECT eventually gets a new request.
C39_Progress ==
  \A d \in Devices :
    /\ <>(/\ d \in DOMAIN state_json.devices
          /\ state_json.devices[d].current_tier = "2h")
    /\ (/\ d \in DOMAIN state_json.devices
        /\ state_json.devices[d].approval_status = "REJECTED")
         ~> (PendingOf(approvals_json, d) # {})

====
